---- MODULE Spec2Model ----
(***************************************************************************)
(* Model of the astrbot_plugin_soupai plugin (src/main.py): the two puzzle *)
(* pools (NetworkSoupaiStorage, StoryStorage) with their persisted usage   *)
(* records, the GameState registry of per-group games, and the handlers of *)
(* SoupaiPlugin that start a game and serve the events of a running game,  *)
(* with the timeout window of its session waiter, the commands that run    *)
(* outside a session and the replenishment of the local pool.              *)
(*                                                                         *)
(* Python lists are 0-indexed: index i of a list is element i+1 of the     *)
(* sequence that models it.  Chinese string literals of the source are     *)
(* written as ASCII tags; each tag is explained where it is defined.       *)
(***************************************************************************)
EXTENDS Integers, Sequences, FiniteSets, TLC

VARIABLES
    stories,          \* pool name -> list of story records    (self.stories)
    used_indexes,     \* pool name -> set of used indices      (self.used_indexes)
    usage_file,       \* pool name -> contents of <name>_usage.json
    stories_file,     \* pool name -> contents of the stories json file
    clock,            \* datetime.now() of the next add_story (created_at)
    ret,              \* what the pool method of this step returned
    round,            \* pool name -> indices drawn since the used set was last empty
    active_games,     \* GameState.active_games: group_id -> game_data
    group_difficulty, \* SoupaiPlugin.group_difficulty: group_id -> name
    generating_games, \* SoupaiPlugin.generating_games
    strategy,         \* SoupaiPlugin.puzzle_source_strategy
    pc,               \* group_id -> where its start_soupai_game coroutine stands
    out,              \* what the handler of this step did (message sent, oracle used)
    elapsed,          \* group_id -> ticks since its session_waiter's window was armed
    auto_generating,  \* SoupaiPlugin.auto_generating
    flight,           \* group_id -> the oracle call a waiter handler is awaiting
    info,             \* pool name -> the get_storage_info call of another thread
    loops,            \* the _auto_generate_loop tasks alive, by where they stand
    unloaded,         \* terminate() has been called on the plugin
    inside            \* thread -> where it stands in a method of the local pool

pool_vars == <<stories, used_indexes, usage_file, stories_file, clock, ret, round>>
game_vars == <<active_games, group_difficulty, generating_games, strategy, pc, out,
              elapsed, auto_generating, flight>>
vars == <<stories, used_indexes, usage_file, stories_file, clock, ret, round,
          active_games, group_difficulty, generating_games, strategy, pc, out,
          elapsed, auto_generating, flight, info, loops, unloaded, inside>>

(***************************************************************************)
(* Bounds of the model.                                                    *)
(***************************************************************************)
\* largest number of puzzles in network_soupai.json
MaxNet == 2
\* storage_max_size of the local pool (config value, default 50)
max_size == 2
\* number of add_story calls in a run (each takes a fresh created_at)
MaxAdds == 4

\* Python's None (an absent limit, or no story returned)
None == -1

Pools == {"network", "local"}

(***************************************************************************)
(* Story records.                                                          *)
(***************************************************************************)
\* entry i of network_soupai.json
NetStory(i) == [puzzle |-> <<"net_puzzle", i>>, answer |-> <<"net_answer", i>>]

\* the record add_story builds at time t out of a generated puzzle
LocalStory(t) == [puzzle |-> <<"puzzle", t>>, answer |-> <<"answer", t>>,
                  created_at |-> t]

NetworkFile(n) == [i \in 1..n |-> NetStory(i)]

NoRet == [op |-> "none", pool |-> "none", selected |-> None, reset |-> FALSE,
          found |-> FALSE]

\* no story text in a message
NoText == <<"none", 0>>

\* a step in which no handler of the plugin sent anything
NoOut == [group |-> "none", event |-> "none", reply |-> "none",
          oracle |-> "none", said |-> "none", text |-> NoText, n |-> None]

(***************************************************************************)
(* ThreadSafeStoryStorage / NetworkSoupaiStorage / StoryStorage            *)
(***************************************************************************)
\* range(len(self.stories))
Indexes(p) == 0 .. (Len(stories[p]) - 1)

\* a draw that forgets the used set
available_indexes_mut_all(p) == Indexes(p)

\* [i for i in range(len(self.stories)) if i not in self.used_indexes]
available_indexes(p) == {i \in Indexes(p) : i \notin used_indexes[p]}

\* the indices drawn in the current round, as get_story leaves them
round_after_draw(p, selected, reset) ==
    IF reset THEN [ok |-> TRUE, seq |-> <<selected>>, by_reset |-> FALSE]
    ELSE IF round[p].ok
         THEN [round[p] EXCEPT !.seq = Append(round[p].seq, selected)]
    ELSE round[p]

\* a round reset that keeps the old usage records
used_after_draw_mut_noclear(p, selected, reset) == used_indexes[p] \cup {selected}

\* self.used_indexes.clear() on a round reset, then self.used_indexes.add(selected)
used_after_draw(p, selected, reset) ==
    (IF reset THEN {} ELSE used_indexes[p]) \cup {selected}

\* a save_usage_record that writes nothing
save_usage_record_mut_skip(file, value, ok) == file

\* save_usage_record: the usage file after the call, `file` being its content
\* before and `value` the used_indexes in memory; a failed write (ok = FALSE)
\* is logged and nothing else happens
save_usage_record(file, value, ok) == IF ok THEN value ELSE file

\* a save_stories that writes nothing
save_stories_mut_skip(file, value, ok) == file

\* save_stories of the local pool, likewise
save_stories(file, value, ok) == IF ok THEN value ELSE file

\* get_story of either pool, on a pool that holds stories: the pool variables
\* after random.choice picked `selected`; ok_clear and ok_add tell whether the
\* save after the round reset and the save after used_indexes.add went through
get_story_io(p, selected, ok_clear, ok_add) ==
    LET reset   == available_indexes(p) = {}
        choices == IF reset THEN Indexes(p) ELSE available_indexes(p)
        cleared == IF reset THEN save_usage_record(usage_file[p], {}, ok_clear)
                   ELSE usage_file[p]
    IN  /\ stories[p] # <<>>
        /\ selected \in choices
        /\ used_indexes' = [used_indexes EXCEPT ![p] = used_after_draw(p, selected, reset)]
        /\ usage_file' = [usage_file EXCEPT ![p] =
                             save_usage_record(cleared, used_indexes'[p], ok_add)]
        /\ ret' = [op |-> "get_story", pool |-> p, selected |-> selected,
                   reset |-> reset, found |-> TRUE]
        /\ round' = [round EXCEPT ![p] = round_after_draw(p, selected, reset)]
        /\ UNCHANGED <<stories, stories_file, clock>>

\* get_story when every write goes through
get_story(p, selected) == get_story_io(p, selected, TRUE, TRUE)

\* get_story on an empty pool: `if not self.stories: return None`
get_story_empty(p) ==
    /\ stories[p] = <<>>
    /\ ret' = [op |-> "get_story", pool |-> p, selected |-> None,
               reset |-> FALSE, found |-> FALSE]
    /\ UNCHANGED <<stories, used_indexes, usage_file, stories_file, clock, round>>

\* an add that never evicts
stories_after_add_mut_noevict(story) == Append(stories["local"], story)

\* self.stories.pop(0) when full, then self.stories.append(story)
stories_after_add(story) ==
    Append(IF Len(stories["local"]) >= max_size
           THEN Tail(stories["local"]) ELSE stories["local"], story)

\* the record add_story builds at time t when the generated puzzle is the text
\* "生成失败" that generate_story_with_llm returns for a failed call
FailedStory(t) == [puzzle |-> <<"gen_failed", t>>, answer |-> <<"no_answer", t>>,
                   created_at |-> t]

\* StoryStorage.add_story(puzzle, answer), story being the record it builds
add_story_io(story, ok) ==
    /\ clock <= MaxAdds
    /\ stories' = [stories EXCEPT !["local"] = stories_after_add(story)]
    /\ stories_file' = [stories_file EXCEPT !["local"] =
                           save_stories(stories_file["local"], stories'["local"], ok)]
    /\ clock' = clock + 1
    /\ ret' = [op |-> "add_story", pool |-> "local", selected |-> None,
               reset |-> Len(stories["local"]) >= max_size, found |-> TRUE]
    /\ round' = [round EXCEPT !["local"] =
                    [ok |-> used_indexes["local"] = {}, seq |-> <<>>,
                     by_reset |-> FALSE]]
    /\ UNCHANGED <<used_indexes, usage_file>>

\* add_story when the write goes through
add_story_record(story) == add_story_io(story, TRUE)

\* add_story of a freshly generated puzzle
add_story == add_story_record(LocalStory(clock))

\* get_storage_info()["available"]
available == max_size - Len(stories["local"])

\* a reset_usage that clears nothing
reset_usage_io_mut_keep(p, ok) ==
    /\ ret' = [op |-> "reset_usage", pool |-> p, selected |-> None,
               reset |-> TRUE, found |-> FALSE]
    /\ round' = [round EXCEPT ![p] =
                    [ok |-> TRUE, seq |-> <<>>, by_reset |-> TRUE]]
    /\ UNCHANGED <<used_indexes, usage_file, stories, stories_file, clock>>

\* ThreadSafeStoryStorage.reset_usage, ok telling whether its write went through
reset_usage_io(p, ok) ==
    /\ used_indexes' = [used_indexes EXCEPT ![p] = {}]
    /\ usage_file' = [usage_file EXCEPT ![p] =
                         save_usage_record(usage_file[p], used_indexes'[p], ok)]
    /\ ret' = [op |-> "reset_usage", pool |-> p, selected |-> None,
               reset |-> TRUE, found |-> FALSE]
    /\ round' = [round EXCEPT ![p] =
                    [ok |-> TRUE, seq |-> <<>>, by_reset |-> TRUE]]
    /\ UNCHANGED <<stories, stories_file, clock>>

\* reset_usage when the write goes through
reset_usage(p) == reset_usage_io(p, TRUE)

\* a load that keeps the set in memory when the file cannot be read
load_usage_record_mut_stale(p, readable) ==
    IF readable THEN usage_file[p] ELSE used_indexes[p]

\* load_usage_record: the usage file when it can be read, else the empty set
load_usage_record(p, readable) == IF readable THEN usage_file[p] ELSE {}

\* load_stories: the stories file when it exists and can be read, else []
load_stories(p, readable) == IF readable THEN stories_file[p] ELSE <<>>

\* _ensure_story_storages on a fresh plugin object: both pools are constructed,
\* each reading its usage record and then its stories
load_pools(readU, readS) ==
    /\ used_indexes' = [p \in Pools |-> load_usage_record(p, readU[p])]
    /\ stories' = [p \in Pools |-> load_stories(p, readS[p])]
    /\ round' = [p \in Pools |-> [ok |-> used_indexes'[p] = {}, seq |-> <<>>,
                                 by_reset |-> FALSE]]
    /\ ret' = [op |-> "load", pool |-> "none", selected |-> None,
               reset |-> FALSE, found |-> FALSE]
    /\ UNCHANGED <<usage_file, stories_file, clock>>


(***************************************************************************)
(* Difficulty table and game records.                                      *)
(***************************************************************************)
Groups == {"g1", "g2"}

\* Verification levels: exact = "完全还原", strong = "核心推理正确",
\* partial = "部分正确", fail = "基本不符", verify_failed = "验证失败"
\* (the level verify_user_guess returns when the oracle cannot be used or read).
Levels == {"exact", "strong", "partial", "fail", "verify_failed"}

\* self.difficulty_settings: easy = "简单", normal = "普通", hard = "困难",
\* cheat = "666开挂了"
difficulty_settings ==
    [easy   |-> [limit |-> None, accept_levels |-> {"exact", "strong"}, hint_limit |-> 10],
     normal |-> [limit |-> 30,   accept_levels |-> {"exact"},           hint_limit |-> 3],
     hard   |-> [limit |-> 15,   accept_levels |-> {"exact"},           hint_limit |-> 1],
     cheat  |-> [limit |-> 5,    accept_levels |-> {"exact"},           hint_limit |-> 0]]

Difficulties == DOMAIN difficulty_settings

\* verification attempts granted once the questions are used up (the literal 2
\* of `remaining = 2 - ...`)
VerifyChances == 2

\* what generate_story_with_llm returns: a parsed story, or one of its sentinels
\* no_provider = "（无法生成题面，请先配置大语言模型）",
\* no_provider_id = "（无法生成题面，指定的生成 LLM 提供商不存在）",
\* gen_failed = "生成失败"
GeneratedStory(kind) ==
    IF kind = "ok" THEN [puzzle |-> <<"llm_puzzle", 0>>, answer |-> <<"llm_answer", 0>>]
    ELSE [puzzle |-> <<kind, 0>>, answer |-> <<"no_answer", 0>>]

\* replies of judge_question: yes = a reply starting with "是",
\* judge_failed = "（判断失败，请重试）"
JudgeReplies == {"yes", "judge_failed"}

Questions == {"q"}

\* bound: entries of qa_history in a game
MaxAsks == 5
\* bound: hints given in a game
MaxHints == 1
\* bound: answers of a game's qa_history that are the oracle's failure sentinel
MaxJudgeFailures == 1

(***************************************************************************)
(* GameState                                                               *)
(***************************************************************************)
\* a registry that reports no group as active
is_game_active_mut_never(g) == FALSE

\* GameState.is_game_active
is_game_active(g) == g \in DOMAIN active_games

\* GameState.get_game (only used where the game exists)
get_game(g) == active_games[g]

\* the dict after self.active_games[group_id] = game_data
games_with(g, game_data) ==
    [x \in DOMAIN active_games \cup {g} |->
        IF x = g THEN game_data ELSE active_games[x]]

\* a registry whose del drops every game
games_without_mut_all(g) == [x \in {} |-> None]

\* the dict after del self.active_games[group_id]
games_without(g) == [x \in DOMAIN active_games \ {g} |-> active_games[x]]

\* GameState.start_game with the keyword arguments start_soupai_game passes
start_game(g, story, difficulty) ==
    LET diff_conf == difficulty_settings[difficulty]
        game_data == [puzzle |-> story.puzzle,
                      answer |-> story.answer,
                      is_active |-> TRUE,
                      qa_history |-> <<>>,
                      difficulty |-> difficulty,
                      question_limit |-> diff_conf.limit,
                      question_count |-> 0,
                      verification_attempts |-> 0,
                      accept_levels |-> diff_conf.accept_levels,
                      hint_limit |-> diff_conf.hint_limit,
                      hint_count |-> 0]
    IN  IF g \in DOMAIN active_games THEN active_games
        ELSE games_with(g, game_data)

\* an end_game that leaves the registry as it is
end_game_mut_keep(g) == active_games

\* GameState.end_game
end_game(g) == IF g \in DOMAIN active_games THEN games_without(g) ELSE active_games

\* an end_game that always reports a game ended
end_game_result_mut_true(g) == TRUE

\* what GameState.end_game returns
end_game_result(g) == g \in DOMAIN active_games

\* a start that takes the easiest profile whatever the group selected
difficulty_of_mut_easy(g) == "easy"

\* self.group_difficulty.get(group_id, "普通")
difficulty_of(g) ==
    IF g \in DOMAIN group_difficulty THEN group_difficulty[g] ELSE "normal"


(***************************************************************************)
(* Handlers of SoupaiPlugin.  Every handler records in `out` the group and  *)
(* event it served, the message it sent (reply, with the story text and the *)
(* number it shows), the oracle it invoked and what that oracle said.       *)
(***************************************************************************)
Msg(g, event, reply, oracle, said, text, n) ==
    [group |-> g, event |-> event, reply |-> reply, oracle |-> oracle,
     said |-> said, text |-> text, n |-> n]

\* a step of a handler that calls no pool method
pools_untouched ==
    /\ ret' = NoRet
    /\ UNCHANGED <<stories, used_indexes, usage_file, stories_file, clock, round>>

\* no oracle call of a waiter handler is awaited
NoFlight == [call |-> "none", live |-> FALSE, text |-> "none"]

\* the calls in flight once the game of g has left the registry: the dict a
\* handler holds (`game`) is no longer the registered one
flight_after_end(g) == [flight EXCEPT ![g].live = FALSE]

\* bound: ticks of the clock in one game_timeout window
TimeoutTicks == 1

\* a keep that leaves the running window as it is
keep_mut_no_reset(g) == elapsed

\* controller.keep(timeout=self.game_timeout, reset_timeout=True): the window
\* of the group's waiter starts again
keep(g) == [elapsed EXCEPT ![g] = 0]

\* a waiter whose timer is never started
fresh_window_mut_unarmed(g) == [elapsed EXCEPT ![g] = TimeoutTicks + 1]

\* the window of a waiter that is created (session_waiter(timeout=...)) or
\* ended (controller.stop(), TimeoutError): no time has run on it
fresh_window(g) == [elapsed EXCEPT ![g] = 0]

\* set_difficulty (command "汤难度")
set_difficulty(g, level) ==
    /\ pools_untouched
    /\ UNCHANGED <<active_games, generating_games, strategy, pc, elapsed, auto_generating, flight, info, loops, unloaded, inside>>
    /\ IF is_game_active(g)
       THEN /\ out' = Msg(g, "set_difficulty", "game_active", "none", "none", NoText, None)
            /\ UNCHANGED group_difficulty
       ELSE IF level \notin Difficulties
       THEN /\ out' = Msg(g, "set_difficulty", "options", "none", difficulty_of(g), NoText, None)
            /\ UNCHANGED group_difficulty
       ELSE /\ out' = Msg(g, "set_difficulty", "set", "none", level, NoText, None)
            /\ group_difficulty' =
                 [x \in DOMAIN group_difficulty \cup {g} |->
                     IF x = g THEN level ELSE group_difficulty[x]]

\* the pool orders get_story_by_strategy tries ("random" picks one of the two)
pool_orders ==
    IF strategy = "network_first" THEN {<<"network", "local">>}
    ELSE IF strategy = "ai_first" THEN {<<"local", "network">>}
    ELSE {<<"network", "local">>, <<"local", "network">>}

\* a choice that goes to the second pool of the order whenever it holds stories
first_pool_mut_second(order) == IF stories[order[2]] # <<>> THEN order[2] ELSE order[1]

\* the first pool of the order that holds stories
first_pool(order) == IF stories[order[1]] # <<>> THEN order[1] ELSE order[2]

\* a mark check that never sees a pending acquisition
generation_pending_mut_never(g) == FALSE

\* `group_id in self.generating_games`
generation_pending(g) == g \in generating_games

\* start_soupai_game: rejected, a game is active
start_already_active(g) ==
    /\ is_game_active(g)
    /\ out' = Msg(g, "start", "already_active", "none", "none", NoText, None)
    /\ pools_untouched
    /\ UNCHANGED <<active_games, group_difficulty, generating_games, strategy, pc,
                   elapsed, auto_generating, flight, info, loops, unloaded, inside>>

\* start_soupai_game: rejected, a puzzle is being acquired for the group
start_generating(g) ==
    /\ ~is_game_active(g)
    /\ generation_pending(g)
    /\ out' = Msg(g, "start", "generation_in_progress", "none", "none", NoText, None)
    /\ pools_untouched
    /\ UNCHANGED <<active_games, group_difficulty, generating_games, strategy, pc,
                   elapsed, auto_generating, flight, info, loops, unloaded, inside>>

\* start_soupai_game: the puzzle comes from a pool; the game is registered and
\* the coroutine then waits in _start_game_session until the session is over
start_from_pool(g, order, selected) ==
    LET p == first_pool(order)
    IN  /\ ~is_game_active(g)
        /\ ~generation_pending(g)
        /\ get_story(p, selected)
        /\ active_games' = start_game(g, stories[p][selected + 1], difficulty_of(g))
        /\ generating_games' = generating_games \cup {g}
        /\ pc' = [pc EXCEPT ![g] = "session"]
        /\ out' = Msg(g, "start", "game_started", "none", difficulty_of(g),
                      stories[p][selected + 1].puzzle, None)
        /\ elapsed' = fresh_window(g)
        /\ UNCHANGED <<group_difficulty, strategy, auto_generating, flight, info, loops, unloaded, inside>>

\* start_soupai_game: both pools are empty, generate_story_with_llm is called.
\* provider = "ok": a provider exists and the coroutine awaits its text_chat;
\* "no_provider" / "no_provider_id": it returns its sentinel at once.
start_generate(g, provider) ==
    /\ ~is_game_active(g)
    /\ ~generation_pending(g)
    /\ \A p \in Pools : stories[p] = <<>>
    /\ ret' = [op |-> "get_story", pool |-> "local", selected |-> None,
               reset |-> FALSE, found |-> FALSE]
    /\ UNCHANGED <<stories, used_indexes, usage_file, stories_file, clock, round>>
    /\ UNCHANGED <<group_difficulty, strategy, auto_generating, flight, info, loops, unloaded, inside>>
    /\ IF provider = "ok"
       THEN /\ generating_games' = generating_games \cup {g}
            /\ pc' = [pc EXCEPT ![g] = "generating"]
            /\ out' = Msg(g, "start", "none", "generate", "none", NoText, None)
            /\ UNCHANGED <<active_games, elapsed>>
       ELSE IF provider = "no_provider"
       THEN /\ out' = Msg(g, "start", "generate_failed", "generate", provider, NoText, None)
            /\ UNCHANGED <<active_games, generating_games, pc, elapsed>>
       ELSE /\ active_games' = start_game(g, GeneratedStory(provider), difficulty_of(g))
            /\ elapsed' = fresh_window(g)
            /\ generating_games' = generating_games \cup {g}
            /\ pc' = [pc EXCEPT ![g] = "session"]
            /\ out' = Msg(g, "start", "game_started", "generate", provider,
                          GeneratedStory(provider).puzzle, None)

\* start_soupai_game resumes when text_chat returns: kind = "ok" for a parsed
\* story, "gen_failed" for an unparseable reply or a failed call
generate_done(g, kind) ==
    /\ pc[g] = "generating"
    /\ pools_untouched
    /\ UNCHANGED <<group_difficulty, strategy, auto_generating, flight, info, loops, unloaded, inside>>
    /\ IF is_game_active(g)
       THEN /\ out' = Msg(g, "generate_done", "start_failed", "none", kind, NoText, None)
            /\ generating_games' = generating_games \ {g}
            /\ pc' = [pc EXCEPT ![g] = "idle"]
            /\ UNCHANGED <<active_games, elapsed>>
       ELSE /\ active_games' = start_game(g, GeneratedStory(kind), difficulty_of(g))
            /\ elapsed' = fresh_window(g)
            /\ pc' = [pc EXCEPT ![g] = "session"]
            /\ out' = Msg(g, "generate_done", "game_started", "none", kind,
                          GeneratedStory(kind).puzzle, None)
            /\ UNCHANGED generating_games

\* start_soupai_game after _start_game_session returned:
\* self.generating_games.discard(group_id)
start_finish(g) ==
    /\ pc[g] = "stopped"
    /\ generating_games' = generating_games \ {g}
    /\ pc' = [pc EXCEPT ![g] = "idle"]
    /\ out' = Msg(g, "start_finish", "none", "none", "none", NoText, None)
    /\ pools_untouched
    /\ UNCHANGED <<active_games, group_difficulty, strategy, elapsed, auto_generating, flight, info, loops, unloaded, inside>>


(***************************************************************************)
(* game_session_waiter: the events of a running game.  The waiter of group *)
(* g runs while pc[g] = "session"; controller.stop() and the TimeoutError  *)
(* end it and let start_soupai_game resume (pc[g] = "stopped").            *)
(***************************************************************************)
in_session(g) == pc[g] = "session" /\ is_game_active(g)

game_vars_kept == UNCHANGED <<group_difficulty, generating_games, strategy, auto_generating>>

\* how many recorded answers are the failure sentinel of judge_question
judge_failures(game) ==
    Cardinality({i \in 1..Len(game.qa_history) :
                    game.qa_history[i].answer = "judge_failed"})

\* `if question_limit is not None and game is not None: game["question_count"] += 1`
count_after_ask(game) ==
    IF game.question_limit # None THEN game.question_count + 1
    ELSE game.question_count

\* a budget check that stops the questions one early
budget_exhausted_mut_early(game) ==
    game.question_limit # None /\ game.question_count + 1 >= game.question_limit

\* a budget check that treats every limited game as out of questions
budget_exhausted_mut_limited(game) == game.question_limit # None

\* `question_limit is not None and question_count >= question_limit`
budget_exhausted(game) ==
    game.question_limit # None /\ game.question_count >= game.question_limit

\* a message that @-mentions the bot and is no command: a question.
\* reply is what judge_question returns for it.
ask(g, question, reply) ==
    LET game == get_game(g)
    IN  /\ in_session(g)
        /\ pools_untouched
        /\ game_vars_kept
        /\ UNCHANGED <<flight, info, loops, unloaded, inside>>
        /\ IF budget_exhausted(game)
           THEN /\ out' = Msg(g, "ask", "budget_exhausted", "none", "none", NoText,
                              VerifyChances - game.verification_attempts)
                /\ UNCHANGED <<active_games, pc, elapsed>>
           ELSE /\ Len(game.qa_history) < MaxAsks
                /\ reply = "judge_failed" => judge_failures(game) < MaxJudgeFailures
                /\ active_games' = [active_games EXCEPT ![g] =
                      [game EXCEPT
                         !.qa_history = Append(@, [question |-> question, answer |-> reply]),
                         !.question_count = count_after_ask(game)]]
                /\ out' = Msg(g, "ask",
                              IF game.question_limit = None THEN "answer"
                              ELSE IF count_after_ask(game) >= game.question_limit
                              THEN "answer_and_switch" ELSE "answer_counted",
                              "judge", reply, NoText, count_after_ask(game))
                /\ elapsed' = keep(g)
                /\ UNCHANGED pc

\* a hint check that knows no limit
hint_rejection_mut_unlimited(game) ==
    IF game.qa_history = <<>> THEN "ask_first" ELSE "none"

\* a hint check that looks at the question history first
hint_rejection_mut_history_first(game) ==
    IF game.qa_history = <<>> THEN "ask_first"
    ELSE IF game.hint_limit = 0 THEN "hints_disabled"
    ELSE IF game.hint_limit # None /\ game.hint_count >= game.hint_limit
    THEN "hints_exhausted"
    ELSE "none"

\* the checks of _build_hint_result on an active game, in the order of the code:
\* `hint_limit == 0`, `hint_limit is not None and hint_count >= hint_limit`,
\* `not qa_history`; "none" when the hint is to be generated
hint_rejection(game) ==
    IF game.hint_limit = 0 THEN "hints_disabled"
    ELSE IF game.hint_limit # None /\ game.hint_count >= game.hint_limit
    THEN "hints_exhausted"
    ELSE IF game.qa_history = <<>> THEN "ask_first"
    ELSE "none"

\* "/提示" or "提示" in the session: hint_command -> _build_hint_result.
\* hint is what generate_hint returns.
hint_in_session(g, hint) ==
    LET game == get_game(g)
    IN  /\ in_session(g)
        /\ pools_untouched
        /\ game_vars_kept
        /\ UNCHANGED <<pc, flight, info, loops, unloaded, inside>>
        /\ elapsed' = keep(g)
        /\ IF hint_rejection(game) # "none"
           THEN /\ out' = Msg(g, "hint", hint_rejection(game), "none", "none", NoText, None)
                /\ UNCHANGED active_games
           ELSE /\ game.hint_count < MaxHints
                /\ active_games' = [active_games EXCEPT ![g] =
                      [game EXCEPT !.hint_count = game.hint_count + 1]]
                /\ out' = Msg(g, "hint", "hint", "hint", hint, NoText,
                              game.hint_count + 1)

\* a verification that wins on the two best levels whatever the difficulty
is_correct_mut_fixed(game, level) == level \in {"exact", "strong"}

\* `is_correct = result.level in accept_levels`
is_correct(game, level) == level \in game.accept_levels

\* a loss that is declared one failed attempt late
attempts_left_mut_three(attempts) == VerifyChances + 1 - attempts

\* `remaining = 2 - game["verification_attempts"]`
attempts_left(attempts) == VerifyChances - attempts

\* "/验证 <guess>" or "验证 <guess>" in the session:
\* _handle_verification_in_session, then the waiter's is_game_active check.
\* level is the level verify_user_guess returns.
verify(g, level) ==
    LET game == get_game(g)
        attempts == game.verification_attempts + 1
    IN  /\ in_session(g)
        /\ pools_untouched
        /\ game_vars_kept
        /\ IF is_correct(game, level)
           THEN /\ out' = Msg(g, "verify", "win", "verify", level, game.answer, None)
                /\ active_games' = end_game(g)
                /\ pc' = [pc EXCEPT ![g] = "stopped"]
                /\ elapsed' = fresh_window(g)
                /\ UNCHANGED <<info, loops, unloaded, inside>>
                /\ flight' = flight_after_end(g)
           ELSE IF budget_exhausted(game)
           THEN IF attempts_left(attempts) > 0
                THEN /\ out' = Msg(g, "verify", "attempts_left", "verify", level,
                                   NoText, attempts_left(attempts))
                     /\ active_games' = [active_games EXCEPT ![g] =
                           [game EXCEPT !.verification_attempts = attempts]]
                     /\ UNCHANGED <<pc, elapsed, flight, info, loops, unloaded, inside>>
                ELSE /\ out' = Msg(g, "verify", "loss", "verify", level,
                                   game.answer, attempts_left(attempts))
                     /\ active_games' = end_game(g)
                     /\ pc' = [pc EXCEPT ![g] = "stopped"]
                     /\ elapsed' = fresh_window(g)
                     /\ UNCHANGED <<info, loops, unloaded, inside>>
                     /\ flight' = flight_after_end(g)
           ELSE /\ out' = Msg(g, "verify", "level_only", "verify", level, NoText, None)
                /\ UNCHANGED <<active_games, pc, elapsed, flight, info, loops, unloaded, inside>>

\* a reveal that shows the puzzle in place of the story behind it
revealed_story_mut_puzzle(game) == game.puzzle

\* `answer = game["answer"]`, sent as "完整故事"
revealed_story(game) == game.answer

\* "揭晓" in the session
reveal_in_session(g) ==
    /\ in_session(g)
    /\ out' = Msg(g, "reveal", "revealed", "none", "none", revealed_story(get_game(g)), None)
    /\ active_games' = end_game(g)
    /\ pc' = [pc EXCEPT ![g] = "stopped"]
    /\ elapsed' = fresh_window(g)
    /\ UNCHANGED <<info, loops, unloaded, inside>>
    /\ flight' = flight_after_end(g)
    /\ pools_untouched
    /\ game_vars_kept

\* who sends a message
Roles == {"admin", "member"}

\* "/强制结束" or "强制结束" in the session, sent by an administrator or by any
\* member: _handle_force_end_in_session (out.said is the sender's role)
force_end_in_session(g, role) ==
    /\ in_session(g)
    /\ out' = Msg(g, "force_end", "force_ended", "none", role, NoText, None)
    /\ active_games' = end_game(g)
    /\ pc' = [pc EXCEPT ![g] = "stopped"]
    /\ elapsed' = fresh_window(g)
    /\ UNCHANGED <<info, loops, unloaded, inside>>
    /\ flight' = flight_after_end(g)
    /\ pools_untouched
    /\ game_vars_kept

\* time passes on the window of a running waiter
Tick(g) ==
    /\ pc[g] = "session"
    /\ elapsed[g] < TimeoutTicks
    /\ elapsed' = [elapsed EXCEPT ![g] = elapsed[g] + 1]
    /\ out' = NoOut
    /\ pools_untouched
    /\ UNCHANGED <<active_games, group_difficulty, generating_games, strategy, pc,
                   auto_generating, flight, info, loops, unloaded, inside>>

\* the waiter's TimeoutError, handled in _start_game_session: the window has
\* run out; the solution is sent and the game ended if there still is one,
\* then start_soupai_game goes on to self.generating_games.discard(group_id)
timeout(g) ==
    /\ pc[g] = "session"
    /\ elapsed[g] = TimeoutTicks
    /\ out' = IF is_game_active(g)
              THEN Msg(g, "timeout", "timed_out", "none", "none", get_game(g).answer, None)
              ELSE Msg(g, "timeout", "none", "none", "none", NoText, None)
    /\ active_games' = end_game(g)
    /\ generating_games' = generating_games \ {g}
    /\ pc' = [pc EXCEPT ![g] = "idle"]
    /\ elapsed' = fresh_window(g)
    /\ UNCHANGED <<info, loops, unloaded, inside>>
    /\ flight' = flight_after_end(g)
    /\ pools_untouched
    /\ UNCHANGED <<group_difficulty, strategy, auto_generating>>

\* a handler that neither calls a pool method nor changes the plugin
nothing_changes ==
    /\ pools_untouched
    /\ UNCHANGED <<active_games, group_difficulty, generating_games, strategy, pc,
                   elapsed, auto_generating, flight, info, loops, unloaded, inside>>

(***************************************************************************)
(* The waiter's handlers taken apart at their await of the oracle: the     *)
(* call, and the code that runs when the oracle has answered.  Between the *)
(* two the waiter's window can run out and a new game can be started.  One *)
(* call per group is followed at a time.                                   *)
(***************************************************************************)
\* what a player can send as a question or guess: "q" is some text, "" a
\* message with nothing left once the command word and blanks are stripped
Texts == {"q", ""}

\* a question reaches `reply = await self.judge_question(command_part, ...)`;
\* `game` holds the registered dict
ask_call(g, question) ==
    /\ in_session(g)
    /\ flight[g].call = "none"
    /\ ~budget_exhausted(get_game(g))
    /\ Len(get_game(g).qa_history) < MaxAsks
    /\ UNCHANGED <<info, loops, unloaded, inside>>
    /\ flight' = [flight EXCEPT ![g] = [call |-> "ask", live |-> TRUE, text |-> question]]
    /\ out' = Msg(g, "ask_call", "none", "judge", question, NoText, None)
    /\ pools_untouched
    /\ UNCHANGED <<active_games, group_difficulty, generating_games, strategy, pc,
                   elapsed, auto_generating>>

\* judge_question has returned `reply`: it is appended and counted in the dict
\* the handler holds, which is the group's game only if that game is still
\* the one registered; then controller.keep of the handler's own waiter
ask_return(g, reply) ==
    /\ flight[g].call = "ask"
    /\ UNCHANGED <<info, loops, unloaded, inside>>
    /\ flight' = [flight EXCEPT ![g] = NoFlight]
    /\ pools_untouched
    /\ game_vars_kept
    /\ UNCHANGED pc
    /\ IF flight[g].live
       THEN LET game == get_game(g)
            IN  /\ reply = "judge_failed" => judge_failures(game) < MaxJudgeFailures
                /\ active_games' = [active_games EXCEPT ![g] =
                      [game EXCEPT
                         !.qa_history = Append(@, [question |-> flight[g].text,
                                                   answer |-> reply]),
                         !.question_count = count_after_ask(game)]]
                /\ out' = Msg(g, "ask_return", "answer", "none", reply, NoText,
                              count_after_ask(game))
                /\ elapsed' = keep(g)
       ELSE /\ out' = Msg(g, "ask_return", "answer", "none", reply, NoText, None)
            /\ UNCHANGED <<active_games, elapsed>>

\* a hint request reaches `hint = await self.generate_hint(...)`
hint_call(g) ==
    /\ in_session(g)
    /\ flight[g].call = "none"
    /\ hint_rejection(get_game(g)) = "none"
    /\ get_game(g).hint_count < MaxHints
    /\ UNCHANGED <<info, loops, unloaded, inside>>
    /\ flight' = [flight EXCEPT ![g] = [call |-> "hint", live |-> TRUE, text |-> "none"]]
    /\ out' = Msg(g, "hint_call", "none", "hint", "none", NoText, None)
    /\ pools_untouched
    /\ UNCHANGED <<active_games, group_difficulty, generating_games, strategy, pc,
                   elapsed, auto_generating>>

\* generate_hint has returned: `game["hint_count"] = hint_count + 1` on the dict
\* the handler holds, then controller.keep of the handler's own waiter
hint_return(g, hint) ==
    /\ flight[g].call = "hint"
    /\ UNCHANGED <<info, loops, unloaded, inside>>
    /\ flight' = [flight EXCEPT ![g] = NoFlight]
    /\ pools_untouched
    /\ game_vars_kept
    /\ UNCHANGED pc
    /\ IF flight[g].live
       THEN /\ active_games' = [active_games EXCEPT ![g] =
                  [get_game(g) EXCEPT !.hint_count = get_game(g).hint_count + 1]]
            /\ out' = Msg(g, "hint_return", "hint", "none", hint, NoText,
                          get_game(g).hint_count + 1)
            /\ elapsed' = keep(g)
       ELSE /\ out' = Msg(g, "hint_return", "hint", "none", hint, NoText, None)
            /\ UNCHANGED <<active_games, elapsed>>

\* "验证 <guess>" reaches `result = await self.verify_user_guess(...)`
verify_call(g) ==
    /\ in_session(g)
    /\ flight[g].call = "none"
    /\ UNCHANGED <<info, loops, unloaded, inside>>
    /\ flight' = [flight EXCEPT ![g] = [call |-> "verify", live |-> TRUE, text |-> "q"]]
    /\ out' = Msg(g, "verify_call", "none", "verify", "none", NoText, None)
    /\ pools_untouched
    /\ UNCHANGED <<active_games, group_difficulty, generating_games, strategy, pc,
                   elapsed, auto_generating>>

\* `accept_levels` of the game get_game returns now, the default pair when
\* there is none
accept_levels_now(g) ==
    IF is_game_active(g) THEN get_game(g).accept_levels ELSE {"exact", "strong"}

\* verify_user_guess has returned `level`: _handle_verification_in_session now
\* looks the game up (`game = self.game_state.get_game(group_id)`) and judges
\* and ends whatever game the group has; the handler's own waiter is stopped
\* when the group then has no game, which ends the session only if that
\* waiter is still the running one
verify_return(g, level) ==
    LET attempts == get_game(g).verification_attempts + 1
        ends == \/ level \in accept_levels_now(g)
                \/ /\ is_game_active(g)
                   /\ budget_exhausted(get_game(g))
                   /\ attempts_left(attempts) <= 0
        counts == /\ level \notin accept_levels_now(g)
                  /\ is_game_active(g)
                  /\ budget_exhausted(get_game(g))
    IN  /\ flight[g].call = "verify"
        /\ pools_untouched
        /\ game_vars_kept
        /\ out' = Msg(g, "verify_return",
                      IF level \in accept_levels_now(g) THEN "win"
                      ELSE IF ~counts THEN "level_only"
                      ELSE IF ends THEN "loss" ELSE "attempts_left",
                      "none", level, NoText, None)
        /\ active_games' =
              IF ends THEN end_game(g)
              ELSE IF counts
              THEN [active_games EXCEPT ![g].verification_attempts = attempts]
              ELSE active_games
        /\ UNCHANGED <<info, loops, unloaded, inside>>
        /\ flight' = [flight EXCEPT ![g] = NoFlight]
        /\ IF flight[g].live /\ ends
           THEN /\ pc' = [pc EXCEPT ![g] = "stopped"]
                /\ elapsed' = fresh_window(g)
           ELSE UNCHANGED <<pc, elapsed>>

\* "验证" or "/验证" with no guess after it: the pattern `(.+)` finds nothing
\* and the player is asked for the text
verify_without_guess(g) ==
    /\ in_session(g)
    /\ out' = Msg(g, "verify", "guess_required", "none", "none", NoText, None)
    /\ nothing_changes

(***************************************************************************)
(* Command handlers that run outside the waiter, and messages that find no *)
(* game.                                                                   *)
(***************************************************************************)
\* hint_command ("提示") for a group without a game: _build_hint_result
\* answers "当前没有活跃的海龟汤游戏"
hint_command(g) ==
    /\ ~is_game_active(g)
    /\ out' = Msg(g, "hint_command", "no_active_game", "none", "none", NoText, None)
    /\ nothing_changes

\* verify_user_guess_command ("验证"): leaves an active game to the waiter,
\* answers "当前没有活跃的海龟汤游戏" otherwise
verify_user_guess_command(g) ==
    /\ out' = Msg(g, "verify_command",
                  IF is_game_active(g) THEN "none" ELSE "no_active_game",
                  "none", "none", NoText, None)
    /\ nothing_changes

\* reveal_answer (command "揭晓"): leaves an active game to the waiter, answers
\* "当前没有活跃的海龟汤游戏" otherwise
reveal_answer(g) ==
    /\ out' = Msg(g, "reveal_command",
                  IF is_game_active(g) THEN "none" ELSE "no_active_game",
                  "none", "none", NoText, None)
    /\ nothing_changes

\* force_end_game (command "强制结束", administrators only): the game is removed
\* from the registry; the waiter of the group is not told
force_end_game(g) ==
    /\ out' = Msg(g, "force_end_command",
                  IF end_game_result(g) THEN "force_ended" ELSE "no_game_to_end",
                  "none", "admin", NoText, None)
    /\ active_games' = end_game(g)
    /\ UNCHANGED <<info, loops, unloaded, inside>>
    /\ flight' = flight_after_end(g)
    /\ pools_untouched
    /\ UNCHANGED <<group_difficulty, generating_games, strategy, pc, elapsed,
                   auto_generating>>

\* a message to a waiter whose game is gone: `if not game: return`
waiter_without_game(g) ==
    /\ pc[g] = "session"
    /\ ~is_game_active(g)
    /\ out' = Msg(g, "ask_no_game", "none", "none", "waiter", NoText, None)
    /\ nothing_changes

\* a question for a group with neither game nor waiter: only
\* global_command_interceptor sees it, and it answers "/" commands alone
global_command_interceptor(g) ==
    /\ pc[g] # "session"
    /\ ~is_game_active(g)
    /\ out' = Msg(g, "ask_no_game", "none", "none", "none", NoText, None)
    /\ nothing_changes

(***************************************************************************)
(* Replenishment of the local pool.                                        *)
(***************************************************************************)
\* what generate_story_with_llm can return
GenerateKinds == {"ok", "gen_failed", "no_provider", "no_provider_id"}

\* a check that turns away every puzzle that is not a parsed story
storable_mut_strict(kind) == kind = "ok"

\* `puzzle and answer and not puzzle.startswith("（")`: of the texts
\* generate_story_with_llm returns, the two provider sentinels start with "（"
storable(kind) == kind \notin {"no_provider", "no_provider_id"}

\* bound: _auto_generate_loop tasks alive at the same time
MaxLoops == 2

\* no _auto_generate_loop task: none is about to test `while self.auto_generating`
\* (just created, or in asyncio.sleep(300)), none awaits generate_story_with_llm
NoLoops == [top |-> 0, generating |-> 0]

\* the tasks alive
loop_count == loops.top + loops.generating

\* asyncio.create_task(self._auto_generate_loop())
loop_created == [loops EXCEPT !.top = @ + 1]

\* what no replenishment step touches
replenish_frame ==
    UNCHANGED <<active_games, group_difficulty, generating_games, strategy, pc, elapsed,
                flight, info, inside>>

\* start_backup_generation (command "备用开始", administrators only)
start_backup_generation ==
    /\ ~unloaded
    /\ pools_untouched
    /\ replenish_frame
    /\ UNCHANGED unloaded
    /\ IF auto_generating
       THEN /\ out' = Msg("none", "backup_start", "already_running", "none", "none", NoText, None)
            /\ UNCHANGED <<auto_generating, loops>>
       ELSE IF available <= 0
       THEN /\ out' = Msg("none", "backup_start", "storage_full", "none", "none", NoText, None)
            /\ UNCHANGED <<auto_generating, loops>>
       ELSE /\ loop_count < MaxLoops
            /\ out' = Msg("none", "backup_start", "started", "none", "none", NoText, None)
            /\ auto_generating' = TRUE
            /\ loops' = loop_created

\* stop_backup_generation (command "备用结束", administrators only)
stop_backup_generation ==
    /\ ~unloaded
    /\ pools_untouched
    /\ replenish_frame
    /\ UNCHANGED <<loops, unloaded>>
    /\ IF ~auto_generating
       THEN /\ out' = Msg("none", "backup_stop", "not_running", "none", "none", NoText, None)
            /\ UNCHANGED auto_generating
       ELSE /\ out' = Msg("none", "backup_stop", "stopping", "none", "none", NoText, None)
            /\ auto_generating' = FALSE

\* one pass of the `while True` of _start_auto_generate, the task init() creates
\* and nothing cancels; in_window is
\* `self.auto_generate_start <= current_hour < self.auto_generate_end`
start_auto_generate(in_window) ==
    /\ pools_untouched
    /\ replenish_frame
    /\ UNCHANGED unloaded
    /\ IF in_window
       THEN IF auto_generating
            THEN /\ out' = Msg("none", "schedule", "running", "none", "none", NoText, None)
                 /\ UNCHANGED <<auto_generating, loops>>
            ELSE IF available <= 0
            THEN /\ out' = Msg("none", "schedule", "storage_full", "none", "none", NoText, None)
                 /\ UNCHANGED <<auto_generating, loops>>
            ELSE /\ loop_count < MaxLoops
                 /\ out' = Msg("none", "schedule", "started", "none", "none", NoText, None)
                 /\ auto_generating' = TRUE
                 /\ loops' = loop_created
       ELSE /\ out' = Msg("none", "schedule", "outside", "none", "none", NoText, None)
            /\ auto_generating' = FALSE
            /\ UNCHANGED loops

\* terminate(): self.auto_generate_task is None from __init__ on, so the
\* cancel() under `if self.auto_generate_task` is never reached
terminate ==
    /\ ~unloaded
    /\ pools_untouched
    /\ replenish_frame
    /\ out' = Msg("none", "terminate", "none", "none", "none", NoText, None)
    /\ auto_generating' = FALSE
    /\ unloaded' = TRUE
    /\ UNCHANGED loops

\* a task of _auto_generate_loop at `while self.auto_generating`: it ends, or
\* finds the pool full, or goes on to await generate_story_with_llm
auto_generate_loop ==
    /\ loops.top > 0
    /\ pools_untouched
    /\ replenish_frame
    /\ UNCHANGED unloaded
    /\ IF ~auto_generating
       THEN /\ out' = Msg("none", "replenish", "ended", "none", "none", NoText, None)
            /\ loops' = [loops EXCEPT !.top = @ - 1]
            /\ UNCHANGED auto_generating
       ELSE IF available <= 0
       THEN /\ out' = Msg("none", "replenish", "storage_full", "none", "none", NoText, None)
            /\ loops' = [loops EXCEPT !.top = @ - 1]
            /\ auto_generating' = FALSE
       ELSE /\ out' = Msg("none", "replenish", "generating", "generate", "none", NoText, None)
            /\ loops' = [top |-> loops.top - 1, generating |-> loops.generating + 1]
            /\ UNCHANGED auto_generating

\* the same task when generate_story_with_llm returns (kind is what it returns):
\* the puzzle is added if it passes the check, then asyncio.sleep(300)
auto_generate_loop_generated(kind) ==
    /\ loops.generating > 0
    /\ replenish_frame
    /\ UNCHANGED <<auto_generating, unloaded>>
    /\ loops' = [top |-> loops.top + 1, generating |-> loops.generating - 1]
    /\ IF storable(kind)
       THEN /\ add_story_record(IF kind = "ok" THEN LocalStory(clock)
                                ELSE FailedStory(clock))
            /\ out' = Msg("none", "replenish", "added", "generate", kind,
                          NoText, None)
       ELSE /\ out' = Msg("none", "replenish", "not_added", "generate", kind,
                          NoText, None)
            /\ pools_untouched

(***************************************************************************)
(* Pool methods called on their own (administration, replenishment, a new  *)
(* plugin object after a reload).                                          *)
(***************************************************************************)
\* (len(self.stories), len(self.used_indexes)) of a pool
snapshot(p) == <<Len(stories[p]), Cardinality(used_indexes[p])>>

\* no get_storage_info call has been made on the pool
NoInfo == [open |-> FALSE, total |-> None, used |-> None, seen |-> {}]

\* the snapshots a pool went through while a get_storage_info call on it was
\* between its get_usage_info and its return
info_observed ==
    [p \in Pools |->
        IF info[p].open
        THEN [info[p] EXCEPT !.seen = @ \cup {<<Len(stories'[p]),
                                                Cardinality(used_indexes'[p])>>}]
        ELSE info[p]]

\* get_storage_info up to the return of get_usage_info: "used" is read under
\* the lock
get_usage_info(p) ==
    /\ ~info[p].open
    /\ UNCHANGED <<loops, unloaded, inside>>
    /\ info' = [info EXCEPT ![p] = [open |-> TRUE, total |-> None,
                                    used |-> Cardinality(used_indexes[p]),
                                    seen |-> {snapshot(p)}]]
    /\ ret' = [op |-> "get_usage_info", pool |-> p, selected |-> None,
               reset |-> FALSE, found |-> FALSE]
    /\ out' = NoOut
    /\ UNCHANGED <<stories, used_indexes, usage_file, stories_file, clock, round,
                   active_games, group_difficulty, generating_games, strategy, pc,
                   elapsed, auto_generating, flight>>

\* get_storage_info from there: "total" is len(self.stories), read after the
\* lock was released ("available" and "remaining" are computed from it)
get_storage_info(p) ==
    /\ info[p].open
    /\ UNCHANGED <<loops, unloaded, inside>>
    /\ info' = [info EXCEPT ![p] = [@ EXCEPT !.open = FALSE,
                                             !.total = Len(stories[p])]]
    /\ ret' = [op |-> "get_storage_info", pool |-> p, selected |-> None,
               reset |-> FALSE, found |-> FALSE]
    /\ out' = NoOut
    /\ UNCHANGED <<stories, used_indexes, usage_file, stories_file, clock, round,
                   active_games, group_difficulty, generating_games, strategy, pc,
                   elapsed, auto_generating, flight>>

game_untouched ==
    /\ out' = NoOut
    /\ UNCHANGED <<loops, unloaded, inside>>
    /\ info' = info_observed
    /\ UNCHANGED <<active_games, group_difficulty, generating_games, strategy, pc,
                   elapsed, auto_generating, flight>>

Draw(p) == (\E selected \in Indexes(p) : get_story(p, selected)) /\ game_untouched

DrawEmpty(p) == get_story_empty(p) /\ game_untouched

Add == add_story /\ game_untouched

ResetUsage(p) == reset_usage(p) /\ game_untouched

\* a new plugin object reads the files the previous one left
Reload(readU, readS) == load_pools(readU, readS) /\ game_untouched

\* the administrator's "/重置题库": reset_usage of the network pool, then of
\* the local pool, then the message with both totals
reset_story_storage ==
    /\ used_indexes' = [p \in Pools |-> {}]
    /\ usage_file' = [p \in Pools |->
                         save_usage_record(usage_file[p], used_indexes'[p], TRUE)]
    /\ ret' = [op |-> "reset_usage", pool |-> "local", selected |-> None,
               reset |-> TRUE, found |-> FALSE]
    /\ round' = [p \in Pools |-> [ok |-> TRUE, seq |-> <<>>, by_reset |-> TRUE]]
    /\ out' = [NoOut EXCEPT !.event = "reset_storage", !.reply = "storage_reset",
                            !.n = Len(stories["network"]) + Len(stories["local"])]
    /\ UNCHANGED <<loops, unloaded, inside>>
    /\ info' = info_observed
    /\ UNCHANGED <<stories, stories_file, clock, active_games, group_difficulty,
                   generating_games, strategy, pc, elapsed, auto_generating, flight>>

\* the pool methods when a write to the data directory fails
DrawUnsaved(p) ==
    /\ \E selected \in Indexes(p), ok_clear, ok_add \in BOOLEAN :
          /\ ~(ok_clear /\ ok_add)
          /\ get_story_io(p, selected, ok_clear, ok_add)
    /\ game_untouched

AddUnsaved == add_story_io(LocalStory(clock), FALSE) /\ game_untouched

ResetUsageUnsaved(p) == reset_usage_io(p, FALSE) /\ game_untouched

(***************************************************************************)
(* The methods of the local pool called from several threads: the lock     *)
(* (threading.Lock) is held from `with self.lock` to the end of its block.  *)
(***************************************************************************)
Threads == {"t1", "t2"}

\* no thread is inside a `with self.lock` block
lock_free == \A t \in Threads : inside[t] \notin {"popped", "adding"}

\* what no pool method touches
lock_frame ==
    UNCHANGED <<active_games, group_difficulty, generating_games, strategy, pc, elapsed,
                auto_generating, flight, info, loops, unloaded>>

\* get_story up to `with self.lock`: `if not self.stories: return None` is
\* evaluated before the lock is asked for
get_story_check(t) ==
    /\ inside[t] = "out"
    /\ lock_frame
    /\ out' = Msg(t, "get_story_check", "none", "none", "none", NoText,
                  Len(stories["local"]))
    /\ IF stories["local"] = <<>>
       THEN /\ get_story_empty("local")
            /\ UNCHANGED inside
       ELSE /\ pools_untouched
            /\ inside' = [inside EXCEPT ![t] = "checked"]

\* get_story from `with self.lock` to its return
get_story_locked(t) ==
    /\ inside[t] = "checked"
    /\ lock_free
    /\ lock_frame
    /\ out' = Msg(t, "get_story", "none", "none", "none", NoText, None)
    /\ \E selected \in Indexes("local") : get_story("local", selected)
    /\ inside' = [inside EXCEPT ![t] = "out"]

\* add_story from `with self.lock` to the record being built: the oldest
\* story is popped when the pool is full
add_story_pop(t) ==
    /\ inside[t] = "out"
    /\ lock_free
    /\ lock_frame
    /\ clock <= MaxAdds
    /\ out' = Msg(t, "add_story_pop", "none", "none", "none", NoText, None)
    /\ ret' = NoRet
    /\ IF Len(stories["local"]) >= max_size
       THEN /\ stories' = [stories EXCEPT !["local"] = Tail(@)]
            /\ inside' = [inside EXCEPT ![t] = "popped"]
       ELSE /\ UNCHANGED stories
            /\ inside' = [inside EXCEPT ![t] = "adding"]
    /\ UNCHANGED <<used_indexes, usage_file, stories_file, clock, round>>

\* add_story from self.stories.append(story) to its return
add_story_append(t) ==
    /\ inside[t] \in {"popped", "adding"}
    /\ lock_frame
    /\ out' = Msg(t, "add_story", "none", "none", "none", NoText, None)
    /\ stories' = [stories EXCEPT !["local"] = Append(@, LocalStory(clock))]
    /\ stories_file' = [stories_file EXCEPT !["local"] =
                           save_stories(stories_file["local"], stories'["local"], TRUE)]
    /\ clock' = clock + 1
    /\ ret' = [op |-> "add_story", pool |-> "local", selected |-> None,
               reset |-> inside[t] = "popped", found |-> TRUE]
    /\ round' = [round EXCEPT !["local"] =
                    [ok |-> used_indexes["local"] = {}, seq |-> <<>>,
                     by_reset |-> FALSE]]
    /\ inside' = [inside EXCEPT ![t] = "out"]
    /\ UNCHANGED <<used_indexes, usage_file>>

(***************************************************************************)
(* Specifications.                                                         *)
(***************************************************************************)
\* bound: stories the local pool file holds when the plugin is first loaded
InitLocal == 1

Strategies == {"network_first", "ai_first", "random"}

NoGames == [x \in {} |-> None]

\* the plugin after __init__ and init(): the pools are loaded from the shipped
\* network file and the local file, nothing has been used, no game runs
Init ==
    /\ \E n \in 0..MaxNet, k \in 0..InitLocal :
          /\ stories_file = [network |-> NetworkFile(n),
                             local |-> [i \in 1..k |-> LocalStory(i)]]
          /\ clock = k + 1
    /\ stories = stories_file
    /\ usage_file = [p \in Pools |-> {}]
    /\ used_indexes = [p \in Pools |-> {}]
    /\ ret = NoRet
    /\ round = [p \in Pools |-> [ok |-> TRUE, seq |-> <<>>, by_reset |-> FALSE]]
    /\ active_games = NoGames
    /\ group_difficulty = NoGames
    /\ generating_games = {}
    /\ strategy \in Strategies
    /\ pc = [g \in Groups |-> "idle"]
    /\ out = NoOut
    /\ elapsed = [g \in Groups |-> 0]
    /\ auto_generating = FALSE
    /\ flight = [g \in Groups |-> NoFlight]
    /\ info = [p \in Pools |-> NoInfo]
    /\ loops = NoLoops
    /\ unloaded = FALSE
    /\ inside = [t \in Threads |-> "out"]

\* the group whose game is followed in depth
Solo == {"g1"}

NextPool ==
    \/ \E p \in Pools : Draw(p)
    \/ \E p \in Pools : DrawEmpty(p)
    \/ Add
    \/ \E p \in Pools : ResetUsage(p)
    \/ reset_story_storage
    \/ \E readU \in [Pools -> BOOLEAN], readS \in [Pools -> BOOLEAN] : Reload(readU, readS)

\* the pools on their own
InitPool == Init /\ strategy = "network_first"

SpecPool == InitPool /\ [][NextPool]_vars

\* the local pool on a data directory whose writes and reads may fail
NextFaulty ==
    \/ Draw("local")
    \/ DrawUnsaved("local")
    \/ Add
    \/ AddUnsaved
    \/ ResetUsage("local")
    \/ ResetUsageUnsaved("local")
    \/ \E readU, readS \in BOOLEAN :
          Reload([p \in Pools |-> readU], [p \in Pools |-> readS])

InitFaulty == InitPool /\ stories_file["network"] = <<>>

SpecFaulty == InitFaulty /\ [][NextFaulty]_vars

\* the local pool while another thread calls get_storage_info on it
NextInfo ==
    \/ Draw("local")
    \/ Add
    \/ get_usage_info("local")
    \/ get_storage_info("local")

SpecInfo == InitFaulty /\ [][NextInfo]_vars

\* start_soupai_game when a pool serves the puzzle, and its rejections
NextStartPool(G) ==
    \/ \E g \in G : start_already_active(g)
    \/ \E g \in G : start_generating(g)
    \/ \E g \in G, order \in pool_orders,
          selected \in Indexes("network") \cup Indexes("local") :
          start_from_pool(g, order, selected)
    \/ \E g \in G : start_finish(g)

\* start_soupai_game when the puzzle has to be generated
NextStartGenerate(G) ==
    \/ \E g \in G, provider \in {"ok", "no_provider", "no_provider_id"} :
          start_generate(g, provider)
    \/ \E g \in G, kind \in {"ok", "gen_failed"} : generate_done(g, kind)

\* the events that need no question to have been asked
NextShallow(G) ==
    \/ \E g \in G : reveal_in_session(g)
    \/ \E g \in G : timeout(g)
    \/ \E g \in G : Tick(g)
    \/ \E g \in G : force_end_game(g)

\* the other events of a session and the commands outside it
NextDeep(G) ==
    \/ \E g \in G, level \in Difficulties \cup {"bogus"} : set_difficulty(g, level)
    \/ \E g \in G, question \in Questions, reply \in JudgeReplies : ask(g, question, reply)
    \/ \E g \in G, hint \in {"hint_text", "hint_failed"} : hint_in_session(g, hint)
    \/ \E g \in G, level \in Levels : verify(g, level)
    \/ \E g \in G, role \in Roles : force_end_in_session(g, role)
    \/ \E g \in G : hint_command(g)
    \/ \E g \in G : verify_user_guess_command(g)
    \/ \E g \in G : reveal_answer(g)
    \/ \E g \in G : waiter_without_game(g)
    \/ \E g \in G : global_command_interceptor(g)

NextFill ==
    \/ start_backup_generation
    \/ stop_backup_generation
    \/ auto_generate_loop
    \/ \E kind \in GenerateKinds : auto_generate_loop_generated(kind)

\* replenishment over the life of the plugin object
NextLoops ==
    \/ NextFill
    \/ \E in_window \in BOOLEAN : start_auto_generate(in_window)
    \/ terminate

Next == NextStartPool(Solo) \/ NextShallow(Solo) \/ NextDeep(Solo)

\* the games of one group, played on a network pool of one puzzle
InitSolo ==
    /\ Init
    /\ strategy = "network_first"
    /\ stories["local"] = <<>>
    /\ Len(stories["network"]) = 1

Spec == InitSolo /\ [][Next]_vars

NextStart == NextStartPool(Solo) \/ NextStartGenerate(Solo) \/ NextShallow(Solo)

\* how games get their puzzle: every strategy, pools of every size, generation;
\* the games themselves are only started and ended
SpecStart == Init /\ [][NextStart]_vars

\* the handlers of a session followed across their oracle calls
NextFlight(G) ==
    \/ \E g \in G, question \in Texts : ask_call(g, question)
    \/ \E g \in G, reply \in JudgeReplies : ask_return(g, reply)
    \/ \E g \in G : hint_call(g)
    \/ \E g \in G, hint \in {"hint_text", "hint_failed"} : hint_return(g, hint)
    \/ \E g \in G : verify_call(g)
    \/ \E g \in G, level \in Levels : verify_return(g, level)
    \/ \E g \in G : verify_without_guess(g)
    \/ \E g \in G : timeout(g)
    \/ \E g \in G : Tick(g)

\* games whose oracle calls take time: the window can run out and a new game
\* can start while a call is awaited
SpecFlight == InitSolo /\ [][NextStartPool(Solo) \/ NextFlight(Solo)]_vars

\* the sessions of two groups side by side
NextDuo ==
    \/ NextStartPool(Groups)
    \/ NextShallow(Groups)
    \/ \E g \in Groups, question \in Questions : ask(g, question, "yes")
    \/ \E g \in Groups : hint_in_session(g, "hint_text")
    \/ \E g \in Groups, level \in {"exact", "partial"} : verify(g, level)
    \/ \E g \in Groups : force_end_in_session(g, "member")

SpecDuo == InitSolo /\ [][NextDuo]_vars

\* the games of one group when time passes and due timers fire
SpecLive ==
    /\ Spec
    /\ \A g \in Solo : WF_vars(Tick(g)) /\ WF_vars(timeout(g))

NextReplenish == NextStart \/ NextFill

\* the local pool filled by replenishment, with no network puzzles
InitReplenish == Init /\ strategy = "ai_first" /\ stories["network"] = <<>>

SpecReplenish == InitReplenish /\ [][NextReplenish]_vars

\* the local pool used by several threads
NextLock ==
    \/ \E t \in Threads : get_story_check(t)
    \/ \E t \in Threads : get_story_locked(t)
    \/ \E t \in Threads : add_story_pop(t)
    \/ \E t \in Threads : add_story_append(t)

SpecLock == InitFaulty /\ [][NextLock]_vars

\* replenishment on its own, from the local pool of the first load
SpecLoops == InitFaulty /\ [][NextLoops]_vars


(***************************************************************************)
(* Properties.                                                             *)
(***************************************************************************)
Distinct(seq) == \A i, j \in 1..Len(seq) : i # j => seq[i] # seq[j]

\* C1: active_games maps a group_id to at most one game (it is a mapping keyed
\* by group_id); a start command for a group that has a game is answered
\* "already active", draws no puzzle, and leaves every registered game (puzzle,
\* answer, counters, qa_history) as it was.
C1_StartRejectedWhenActive ==
    [][\A g \in Groups :
          (out'.event = "start" /\ out'.group = g /\ g \in DOMAIN active_games)
          => /\ out'.reply = "already_active"
             /\ active_games' = active_games
             /\ ret' = NoRet
             /\ used_indexes' = used_indexes]_vars

C1_Witness ==
    /\ out.event = "start"
    /\ out.reply = "already_active"
    /\ out.group \in DOMAIN active_games
    /\ active_games[out.group].qa_history # <<>>
    /\ active_games[out.group].question_count > 0

\* C2: in a pool whose size N has not changed since its used set was empty, the
\* draws made since then return pairwise distinct valid indices as long as
\* there are at most N of them.
C2_RoundComplete ==
    \A p \in Pools :
        (round[p].ok /\ Len(round[p].seq) <= Len(stories[p]))
        => /\ Distinct(round[p].seq)
           /\ \A i \in 1..Len(round[p].seq) : round[p].seq[i] \in Indexes(p)

C2_Witness ==
    \E p \in Pools :
        /\ round[p].ok
        /\ Len(stories[p]) >= 2
        /\ Len(round[p].seq) = Len(stories[p])
        /\ ret.op = "get_story" /\ ret.pool = p /\ ~ret.reset

\* C3: get_story returns a story exactly when the pool is not empty, the index
\* it returns is a valid one, and when every index of the pool is already used
\* it resets the round: afterwards the used set is exactly the index returned.
C3_DrawResetsFullRound ==
    [][\A p \in Pools :
          (ret'.op = "get_story" /\ ret'.pool = p)
          => /\ ret'.found <=> Len(stories[p]) >= 1
             /\ ret'.found => ret'.selected \in Indexes(p)
             /\ (Len(stories[p]) >= 1 /\ Indexes(p) \subseteq used_indexes[p])
                => /\ ret'.reset
                   /\ used_indexes'[p] = {ret'.selected}]_vars

C3_Witness ==
    /\ ret.op = "get_story"
    /\ ret.reset
    /\ ret.pool \in Pools
    /\ Len(stories[ret.pool]) >= 2
    /\ used_indexes[ret.pool] = {ret.selected}

\* C4: every used index is a valid index of the pool's current story list.
C4_UsedIndexesValid ==
    \A p \in Pools : used_indexes[p] \subseteq Indexes(p)

\* C5: the local pool never holds more than max_size stories, and an add_story
\* on a full pool drops the story at index 0, keeps the others in order, puts
\* the new story last and leaves the length unchanged.
C5_BoundedPool ==
    /\ [](Len(stories["local"]) <= max_size)
    /\ [][ret'.op = "add_story"
          => /\ stories'["local"][Len(stories'["local"])] = LocalStory(clock)
             /\ Len(stories["local"]) = max_size
                => /\ Len(stories'["local"]) = max_size
                   /\ \A i \in 1..(max_size - 1) :
                         stories'["local"][i] = stories["local"][i + 1]
             /\ Len(stories["local"]) < max_size
                => stories'["local"] = Append(stories["local"], LocalStory(clock))]_vars

C5_Witness ==
    /\ ret.op = "add_story"
    /\ ret.reset
    /\ Len(stories["local"]) = max_size
    /\ stories["local"][max_size] = LocalStory(clock - 1)
    /\ stories["local"][1] = LocalStory(clock - max_size)

\* C6: an add_story on a full pool remaps the usage record: the used set becomes
\* { i-1 : i used before, i > 0 }.
C6_EvictionRemapsUsage ==
    [][(ret'.op = "add_story" /\ Len(stories["local"]) >= max_size)
          => used_indexes'["local"] =
                {i - 1 : i \in used_indexes["local"] \ {0}}]_vars

\* C7: in a game with a question limit, a question asked while question_count
\* is below the limit goes to the judgment oracle and raises question_count by
\* one; a question asked once question_count has reached the limit is rejected
\* without the oracle, changes no game and leaves the session running.
C7_QuestionBudget ==
    [][\A g \in Groups :
          (out'.event = "ask" /\ out'.group = g
              /\ active_games[g].question_limit # None)
          => IF active_games[g].question_count < active_games[g].question_limit
             THEN /\ out'.oracle = "judge"
                  /\ g \in DOMAIN active_games'
                  /\ active_games'[g].question_count
                        = active_games[g].question_count + 1
                  /\ active_games'[g].question_count
                        <= active_games[g].question_limit
             ELSE /\ out'.oracle = "none"
                  /\ out'.reply = "budget_exhausted"
                  /\ active_games' = active_games
                  /\ pc'[g] = "session"]_vars

C7_Witness ==
    /\ out.event = "ask"
    /\ out.reply = "budget_exhausted"
    /\ out.group \in DOMAIN active_games
    /\ active_games[out.group].question_count = active_games[out.group].question_limit
    /\ Len(active_games[out.group].qa_history) = active_games[out.group].question_limit

\* C8: in every game question_count equals the length of qa_history.
C8_CountMatchesHistory ==
    \A g \in DOMAIN active_games :
        active_games[g].question_count = Len(active_games[g].qa_history)

\* C9 as stated: a verification wins, ends the session and shows the solution
\* exactly when the oracle's level is one of the game's accept_levels; any other
\* verification leaves the session active.
C9_WinIffAccepted_Original ==
    [][\A g \in Groups :
          (out'.event = "verify" /\ out'.group = g)
          => /\ out'.reply = "win" <=> out'.said \in active_games[g].accept_levels
             /\ g \notin DOMAIN active_games'
                   <=> out'.said \in active_games[g].accept_levels]_vars

\* C9 (amended): the accept_levels of a game are those of its difficulty and
\* never change; a verification wins exactly when the oracle's level is one of
\* them, and a win ends the session and shows the stored solution; a
\* verification that does not win leaves the session active unless it is the
\* second failed one after the questions are used up.
C9_WinIffAccepted ==
    [][/\ \A g \in DOMAIN active_games :
            /\ active_games[g].accept_levels
                  = difficulty_settings[active_games[g].difficulty].accept_levels
            /\ g \in DOMAIN active_games'
                  => active_games'[g].accept_levels = active_games[g].accept_levels
       /\ \A g \in Groups :
            (out'.event = "verify" /\ out'.group = g)
            => /\ out'.reply = "win" <=> out'.said \in active_games[g].accept_levels
               /\ out'.reply = "win"
                     => /\ g \notin DOMAIN active_games'
                        /\ out'.text = active_games[g].answer
               /\ out'.reply # "win"
                     => \/ g \in DOMAIN active_games'
                        \/ /\ budget_exhausted(active_games[g])
                           /\ active_games[g].verification_attempts = VerifyChances - 1
                           /\ out'.reply = "loss"]_vars

C9_Witness ==
    /\ out.event = "verify"
    /\ out.said = "strong"
    /\ out.reply = "level_only"
    /\ out.group \in DOMAIN active_games
    /\ active_games[out.group].accept_levels = {"exact"}

\* C10: once the questions of a limited game are used up, the first failed
\* verification sets verification_attempts to 1, reports 1 attempt left and
\* keeps the session; the second ends the game as lost and shows the solution.
\* No game ever has verification_attempts >= 2.
C10_TwoVerifyChances ==
    /\ [](\A g \in DOMAIN active_games :
             active_games[g].verification_attempts < VerifyChances)
    /\ [][\A g \in Groups :
            (out'.event = "verify" /\ out'.group = g
                /\ budget_exhausted(active_games[g])
                /\ out'.said \notin active_games[g].accept_levels)
            => IF active_games[g].verification_attempts = 0
               THEN /\ g \in DOMAIN active_games'
                    /\ active_games'[g].verification_attempts = 1
                    /\ out'.reply = "attempts_left"
                    /\ out'.n = 1
                    /\ pc'[g] = "session"
               ELSE /\ g \notin DOMAIN active_games'
                    /\ out'.reply = "loss"
                    /\ out'.text = active_games[g].answer
                    /\ pc'[g] = "stopped"]_vars

C10_Witness ==
    /\ out.event = "verify"
    /\ out.reply = "loss"
    /\ out.n = 0
    /\ out.text # NoText
    /\ out.group \notin DOMAIN active_games
    /\ pc[out.group] = "stopped"

\* C11: a verification that does not win while the questions are not used up
\* (the game has no question limit, or question_count is below it) changes
\* nothing: verification_attempts, question_count, hint_count and qa_history
\* stay as they were and the session stays active.
C11_VerifyBeforeBudgetChangesNothing ==
    [][\A g \in Groups :
          (/\ out'.event = "verify" /\ out'.group = g
           /\ out'.said \notin active_games[g].accept_levels
           /\ \/ active_games[g].question_limit = None
              \/ active_games[g].question_count < active_games[g].question_limit)
          => /\ g \in DOMAIN active_games'
             /\ active_games'[g] = active_games[g]
             /\ pc'[g] = "session"
             /\ out'.reply = "level_only"]_vars

C11_Witness ==
    /\ out.event = "verify"
    /\ out.reply = "level_only"
    /\ out.said = "partial"
    /\ out.group \in DOMAIN active_games
    /\ active_games[out.group].question_limit # None
    /\ active_games[out.group].question_count = active_games[out.group].question_limit - 1
    /\ active_games[out.group].verification_attempts = 0

\* C12: a hint request on an active game is refused, without the hint oracle
\* and without any change to the game, for the first of these that applies:
\* hint_limit is 0; a hint_limit is set and hint_count has reached it;
\* qa_history is empty.  Otherwise the hint oracle is invoked and hint_count
\* goes up by one.
C12_HintChecksInOrder ==
    [][\A g \in Groups :
          (out'.event = "hint" /\ out'.group = g /\ g \in DOMAIN active_games)
          => LET game == active_games[g]
             IN  IF game.hint_limit = 0
                 THEN /\ out'.reply = "hints_disabled" /\ out'.oracle = "none"
                      /\ active_games' = active_games
                 ELSE IF game.hint_limit # None /\ game.hint_count >= game.hint_limit
                 THEN /\ out'.reply = "hints_exhausted" /\ out'.oracle = "none"
                      /\ active_games' = active_games
                 ELSE IF game.qa_history = <<>>
                 THEN /\ out'.reply = "ask_first" /\ out'.oracle = "none"
                      /\ active_games' = active_games
                 ELSE /\ out'.oracle = "hint"
                      /\ active_games' = [active_games EXCEPT
                            ![g].hint_count = game.hint_count + 1]]_vars

C12_Witness ==
    /\ out.event = "hint"
    /\ out.reply = "hints_exhausted"
    /\ out.group \in DOMAIN active_games
    /\ active_games[out.group].hint_limit > 0
    /\ active_games[out.group].hint_count = active_games[out.group].hint_limit
    /\ active_games[out.group].qa_history # <<>>

\* C13: "揭晓" in a running session ends the game and sends exactly the stored
\* answer, whatever question_count, hint_count and verification_attempts are.
C13_RevealEndsAndShowsAnswer ==
    [][\A g \in Groups :
          (out'.event = "reveal" /\ out'.group = g)
          => /\ g \in DOMAIN active_games
             /\ g \notin DOMAIN active_games'
             /\ out'.reply = "revealed"
             /\ out'.text = active_games[g].answer
             /\ pc'[g] = "stopped"]_vars

C13_Witness ==
    /\ out.event = "reveal"
    /\ out.reply = "revealed"
    /\ out.text = NetStory(1).answer
    /\ out.group \notin DOMAIN active_games
    /\ pc[out.group] = "stopped"

C15_SlidingTimeout ==
    [][\A g \in Groups :
          /\ (out'.group = g
                 /\ \/ out'.event = "ask" /\ out'.oracle = "judge"
                    \/ out'.event = "hint" /\ out'.oracle = "hint")
             => elapsed'[g] = 0
          /\ (out'.group = g /\ out'.event = "timeout")
             => elapsed[g] = TimeoutTicks]_vars

C15_Witness ==
    /\ out.event = "ask"
    /\ out.oracle = "judge"
    /\ out.group \in DOMAIN active_games
    /\ Len(active_games[out.group].qa_history) >= 2
    /\ elapsed[out.group] = 0

\* C16: a verification that leaves the session running starts the waiter's
\* window again.
C16_VerifyRearms ==
    [][\A g \in Groups :
          (out'.event = "verify" /\ out'.group = g /\ g \in DOMAIN active_games')
          => elapsed'[g] = 0]_vars

\* C17: a start command that arrives while the group's first start is still
\* acquiring its puzzle is answered "generation in progress" and starts no
\* second acquisition; while a puzzle is being acquired the group is marked
\* and has no game, and each acquisition ends once, with at most one game.
C17_SingleAcquisition ==
    /\ [](\A g \in Groups :
             pc[g] = "generating" => g \in generating_games /\ g \notin DOMAIN active_games)
    /\ [][\A g \in Groups :
            /\ (out'.event = "start" /\ out'.group = g /\ pc[g] = "generating")
               => /\ out'.reply = "generation_in_progress"
                  /\ out'.oracle = "none"
                  /\ ret' = NoRet
                  /\ active_games' = active_games
                  /\ generating_games' = generating_games
                  /\ pc' = pc
            /\ (out'.event = "generate_done" /\ out'.group = g)
               => pc[g] = "generating" /\ pc'[g] # "generating"]_vars

C17_Witness ==
    /\ out.event = "start"
    /\ out.reply = "generation_in_progress"
    /\ out.group \in Groups
    /\ pc[out.group] = "generating"
    /\ active_games = NoGames

\* C18: a start command for a group without a game (none yet, or the last one
\* ended by reveal, win, loss, timeout or a forced end) is accepted: it is
\* answered neither "already active" nor "generation in progress".
C18_StartAfterEnd ==
    [][\A g \in Groups :
          (out'.event = "start" /\ out'.group = g /\ g \notin DOMAIN active_games)
          => out'.reply \notin {"already_active", "generation_in_progress"}]_vars

\* C19: a start served by a pool draws from the first pool of the strategy's
\* order that holds stories (network_first: network, else local; ai_first:
\* local, else network; random: either order), marks the drawn index in that
\* pool's used set and leaves the other pool's used set alone; a puzzle is
\* generated only when both pools are empty, and then no used set changes.
C19_SourcePriority ==
    [][\A g \in Groups :
          (out'.event = "start" /\ out'.group = g /\ g \in DOMAIN active_games'
              /\ g \notin DOMAIN active_games)
          => IF out'.oracle = "generate"
             THEN /\ \A p \in Pools : stories[p] = <<>>
                  /\ used_indexes' = used_indexes
             ELSE /\ ret'.op = "get_story"
                  /\ ret'.pool \in Pools
                  /\ stories[ret'.pool] # <<>>
                  /\ strategy = "network_first"
                        => (ret'.pool = "local" <=> stories["network"] = <<>>)
                  /\ strategy = "ai_first"
                        => (ret'.pool = "network" <=> stories["local"] = <<>>)
                  /\ ret'.selected \in used_indexes'[ret'.pool]
                  /\ out'.text = stories[ret'.pool][ret'.selected + 1].puzzle
                  /\ \A q \in Pools \ {ret'.pool} : used_indexes'[q] = used_indexes[q]]_vars

C19_Witness ==
    /\ strategy = "ai_first"
    /\ out.event = "start"
    /\ out.reply = "game_started"
    /\ ret.pool = "local"
    /\ stories["network"] # <<>>
    /\ used_indexes["network"] = {}
    /\ used_indexes["local"] = {ret.selected}

\* C20: a generated puzzle is taken only when it is a real story: a start whose
\* generation returned a failure text creates no game, and a replenishment
\* pass whose generation returned one adds no record to the local pool.
C20_FailedGenerationRejected ==
    [][/\ (out'.event \in {"start", "generate_done"}
              /\ out'.said \in {"gen_failed", "no_provider", "no_provider_id"})
          => active_games' = active_games
       /\ (out'.event = "replenish" /\ out'.said # "ok")
          => stories' = stories]_vars

\* C21: when the game of a group has ended while a judge, hint or verification
\* call of its waiter was awaited, the code that runs after the call changes
\* no game of the group (no counter, no history, no ending), a game started
\* since included.
C21_StaleResultDiscarded ==
    [][\A g \in Groups :
          (out'.group = g /\ ~flight[g].live
              /\ out'.event \in {"ask_return", "hint_return", "verify_return"})
          => active_games' = active_games]_vars

\* C22: a question the judge oracle failed on, and a hint request the hint
\* oracle failed on, leave the game as it was: the failure text is not put in
\* qa_history, question_count and hint_count are not raised, the game stays.
C22_OracleFailureNotRecorded ==
    [][\A g \in Groups :
          (out'.group = g
              /\ \/ out'.event = "ask" /\ out'.said = "judge_failed"
                 \/ out'.event = "hint" /\ out'.said = "hint_failed")
          => active_games' = active_games]_vars

\* C23: a verification the oracle failed on (level "验证失败") neither ends the
\* game nor counts as a verification attempt, whatever the question budget
\* and the attempts already counted.
C23_VerifyFailureNotCounted ==
    [][\A g \in Groups :
          (out'.event = "verify" /\ out'.group = g /\ out'.said = "verify_failed")
          => /\ active_games' = active_games
             /\ pc' = pc]_vars

\* C24: a question with no text and a verification with no guess are turned
\* away before any oracle is called and change no game.
C24_EmptyTextRejected ==
    [][/\ (out'.event = "ask_call" /\ out'.said = "")
          => out'.oracle = "none"
       /\ (out'.event = "ask_return" /\ flight[out'.group].text = "")
          => active_games' = active_games
       /\ (out'.event = "verify" /\ out'.reply = "guess_required")
          => out'.oracle = "none" /\ active_games' = active_games]_vars

C28_SaveFailureKeepsMemory ==
    [][LET p == "local" IN
          /\ (ret'.op = "get_story" /\ ret'.pool = p)
                => /\ ret'.found /\ ret'.selected \in Indexes(p)
                   /\ used_indexes'[p] =
                         (IF ret'.reset THEN {} ELSE used_indexes[p]) \cup {ret'.selected}
                   /\ stories' = stories
          /\ ret'.op = "add_story"
                => /\ ret'.found
                   /\ stories'[p] # <<>>
                   /\ stories'[p][Len(stories'[p])] = LocalStory(clock)
                   /\ Len(stories'[p]) = IF Len(stories[p]) >= max_size
                                          THEN max_size ELSE Len(stories[p]) + 1
                   /\ used_indexes' = used_indexes
          /\ (ret'.op = "reset_usage" /\ ret'.pool = p)
                => used_indexes'[p] = {} /\ stories' = stories
          /\ ret'.op = "load"
                => /\ used_indexes'[p] \in {usage_file[p], {}}
                   /\ stories'[p] \in {stories_file[p], <<>>}
                   /\ usage_file' = usage_file /\ stories_file' = stories_file]_vars

\* a draw whose index is in used_indexes while the usage file, whose write
\* failed, does not have it, from a stories list whose own write had failed
C28_Witness ==
    /\ ret.op = "get_story" /\ ret.found
    /\ ret.selected \in used_indexes["local"]
    /\ ret.selected \notin usage_file["local"]
    /\ stories["local"] # stories_file["local"]
    /\ Len(stories["local"]) > Len(stories_file["local"])

\* the indices a sequence holds
Range(seq) == {seq[i] : i \in 1..Len(seq)}

\* C27: reset_usage empties used_indexes and the usage file of its pool and
\* leaves the stories, in memory and in the file, as they were; the draws that
\* follow it on the pool, of size N, return an index not yet returned since
\* the reset, without starting a new round, until N of them are made.
C27_ResetUsage ==
    [][\A p \in Pools :
          /\ ((ret'.op = "reset_usage" /\ ret'.pool = p)
                 \/ out'.event = "reset_storage")
                => /\ used_indexes'[p] = {}
                   /\ usage_file'[p] = {}
                   /\ stories' = stories
                   /\ stories_file' = stories_file
          /\ (ret'.op = "get_story" /\ ret'.pool = p /\ ret'.found
                 /\ round[p].by_reset /\ round[p].ok
                 /\ Len(round[p].seq) < Len(stories[p]))
                => /\ ~ret'.reset
                   /\ ret'.selected \in Indexes(p) \ Range(round[p].seq)
                   /\ used_indexes'[p] = Range(round[p].seq) \cup {ret'.selected}]_vars

\* the N-th draw after a reset_usage on a pool of N >= 2 stories: all N indices
\* have been returned, each once
C27_Witness ==
    \E p \in Pools :
        /\ ret.op = "get_story" /\ ret.pool = p
        /\ round[p].by_reset /\ round[p].ok
        /\ Len(stories[p]) >= 2
        /\ Len(round[p].seq) = Len(stories[p])
        /\ Range(round[p].seq) = Indexes(p)

\* C26: the figures a get_storage_info call returns are those of one state its
\* pool was in between its start and its return: the total and the used count
\* it reports were the size of stories and of used_indexes at the same instant
\* (available and remaining being computed from them).
C26_ConsistentSnapshot ==
    \A p \in Pools :
        (~info[p].open /\ info[p].seen # {})
        => <<info[p].total, info[p].used>> \in info[p].seen

\* C29: a game registered by a start has the question limit, accepted levels
\* and hint limit of the difficulty its group selected, or of "普通" when the
\* group selected none, with question_count, hint_count and
\* verification_attempts 0 and an empty qa_history; and a set-difficulty
\* request either leaves the selection of every group as it was or sets the
\* group's selection to the name of a profile, so an unrecognized name never
\* becomes, or changes, a selection.
C29_StartCarriesBudget ==
    [][\A g \in Groups :
          /\ (out'.group = g /\ out'.reply = "game_started")
                => /\ g \notin DOMAIN active_games
                   /\ g \in DOMAIN active_games'
                   /\ LET game == active_games'[g]
                          name == IF g \in DOMAIN group_difficulty
                                  THEN group_difficulty[g] ELSE "normal"
                      IN  /\ name \in Difficulties
                          /\ game.difficulty = name
                          /\ game.question_limit = difficulty_settings[name].limit
                          /\ game.accept_levels = difficulty_settings[name].accept_levels
                          /\ game.hint_limit = difficulty_settings[name].hint_limit
                          /\ game.question_count = 0
                          /\ game.hint_count = 0
                          /\ game.verification_attempts = 0
                          /\ game.qa_history = <<>>
          /\ (out'.group = g /\ out'.event = "set_difficulty")
                => \/ group_difficulty' = group_difficulty
                         /\ out'.reply \in {"options", "game_active"}
                   \/ /\ out'.reply = "set"
                      /\ out'.said \in Difficulties
                      /\ g \in DOMAIN group_difficulty'
                      /\ group_difficulty'[g] = out'.said
                      /\ \A x \in DOMAIN group_difficulty \ {g} :
                            x \in DOMAIN group_difficulty'
                               /\ group_difficulty'[x] = group_difficulty[x]]_vars

\* a game started with the budget of "666开挂了", which its group had selected
C29_Witness ==
    /\ out.reply = "game_started"
    /\ out.group \in DOMAIN active_games
    /\ out.group \in DOMAIN group_difficulty
    /\ group_difficulty[out.group] = "cheat"
    /\ active_games[out.group].question_limit = 5
    /\ active_games[out.group].hint_limit = 0

\* C30: the force-end command reports a game ended exactly when its group had
\* one (end_game returned True) and the group has none afterwards, the games
\* of the other groups being kept; when the group had none (a second end right
\* after a first included) it reports that there is none and active_games is
\* unchanged.
C30_EndExactlyWhenPresent ==
    [][\A g \in Groups :
          (out'.group = g /\ out'.event \in {"force_end_command", "force_end"})
          => /\ out'.reply = "force_ended" <=> g \in DOMAIN active_games
             /\ out'.reply = "no_game_to_end" <=> g \notin DOMAIN active_games
             /\ g \notin DOMAIN active_games'
             /\ DOMAIN active_games' = DOMAIN active_games \ {g}
             /\ \A x \in DOMAIN active_games' : active_games'[x] = active_games[x]
             /\ g \notin DOMAIN active_games => active_games' = active_games]_vars

\* the second force-end in a row: the first removed the game (its waiter is
\* still there), the second finds none
C30_Witness ==
    /\ out.event = "force_end_command"
    /\ out.reply = "no_game_to_end"
    /\ pc[out.group] = "session"
    /\ out.group \notin DOMAIN active_games

\* C33: a force-end request ends a game only when an administrator sent it: a
\* request of another member, served by the command handler or by the waiter
\* of the session, leaves every game as it was.
C33_ForceEndAdminOnly ==
    [][\A g \in Groups :
          (out'.group = g /\ out'.event \in {"force_end_command", "force_end"}
              /\ out'.said # "admin")
          => active_games' = active_games]_vars

\* C34: a running game never has more questions counted than its question
\* limit, nor more hints counted than its hint limit, where it has one.
C34_CountersWithinLimits ==
    \A g \in DOMAIN active_games :
        /\ active_games[g].question_limit # None
              => active_games[g].question_count <= active_games[g].question_limit
        /\ active_games[g].hint_limit # None
              => active_games[g].hint_count <= active_games[g].hint_limit
        /\ active_games[g].question_count >= 0
        /\ active_games[g].hint_count >= 0

\* a question turned away and nothing counted, in a game whose questions and
\* whose one hint are all used
C34_Witness ==
    /\ out.event = "ask" /\ out.reply = "budget_exhausted"
    /\ out.group \in DOMAIN active_games
    /\ active_games[out.group].question_limit # None
    /\ active_games[out.group].question_count = active_games[out.group].question_limit
    /\ active_games[out.group].hint_limit = 0
    /\ active_games[out.group].hint_count = 0

\* C35: no group has a game whose waiter is taking messages while the group
\* is still in generating_games.
C35_MarkOnlyWhilePending ==
    \A g \in Groups :
        ~(g \in DOMAIN active_games /\ pc[g] = "session" /\ g \in generating_games)

\* C39: a set-difficulty request for a group that has a game is answered that
\* a game is active and changes neither the selections nor the games; and a
\* step that leaves a group its game leaves the game its difficulty, question
\* limit, accepted levels and hint limit.
C39_BudgetFixed ==
    [][\A g \in Groups :
          /\ (out'.group = g /\ out'.event = "set_difficulty"
                 /\ g \in DOMAIN active_games)
                => /\ out'.reply = "game_active"
                   /\ group_difficulty' = group_difficulty
                   /\ active_games' = active_games
          /\ (g \in DOMAIN active_games /\ g \in DOMAIN active_games')
                => /\ active_games'[g].difficulty = active_games[g].difficulty
                   /\ active_games'[g].question_limit = active_games[g].question_limit
                   /\ active_games'[g].accept_levels = active_games[g].accept_levels
                   /\ active_games'[g].hint_limit = active_games[g].hint_limit
                   /\ active_games'[g].puzzle = active_games[g].puzzle
                   /\ active_games'[g].answer = active_games[g].answer]_vars

\* a set-difficulty request turned away in a game that has questions recorded
C39_Witness ==
    /\ out.event = "set_difficulty" /\ out.reply = "game_active"
    /\ out.group \in DOMAIN active_games
    /\ active_games[out.group].qa_history # <<>>
    /\ active_games[out.group].difficulty = "hard"

\* C32: a step taken for one group (a start, a question, a hint, a
\* verification, a reveal, a forced end, a timeout) leaves every other group's
\* game, or its having none, and its place in generating_games as they were.
C32_GroupsIndependent ==
    [][\A g \in Groups, other \in Groups :
          (out'.group = g /\ other # g)
          => /\ other \in DOMAIN active_games' <=> other \in DOMAIN active_games
             /\ other \in DOMAIN active_games
                   => active_games'[other] = active_games[other]
             /\ other \in generating_games' <=> other \in generating_games
             /\ pc'[other] = pc[other]
             /\ elapsed'[other] = elapsed[other]]_vars

\* the game of one group ends by timeout while the other group's game, with
\* questions and a hint counted, goes on
C32_Witness ==
    /\ out.event = "timeout" /\ out.group = "g1"
    /\ "g1" \notin DOMAIN active_games
    /\ "g2" \in DOMAIN active_games
    /\ Len(active_games["g2"].qa_history) >= 2
    /\ active_games["g2"].hint_count = 1
    /\ "g2" \in generating_games

\* a step in which a message of the group was handled
Arrived == out.event \notin {"none", "timeout"}

C31_ReplenishNeverEvicts ==
    [][(out'.event = "replenish" /\ out'.reply = "added")
          => Len(stories["local"]) < max_size]_vars

\* C37: at most one replenishment loop is alive at any time, also when a stop
\* is followed by a start while the loop started before is still asleep or
\* generating.
C37_SingleLoop == loop_count <= 1

\* C40: once terminate() has run, replenishment is never switched on again
\* and no loop is started.
C40_OffAfterTerminate ==
    [][unloaded => (~auto_generating' /\ loops'.top <= loops.top)]_vars

\* C36: draws and adds of several threads on the local pool exclude each
\* other: the indices drawn in one round are distinct, and no step of a draw
\* reads the record list while an add has popped the oldest story and has not
\* yet appended the new one.
C36_DrawsExclusive ==
    /\ [](\A i, j \in DOMAIN round["local"].seq :
             i # j => round["local"].seq[i] # round["local"].seq[j])
    /\ [][out'.event \in {"get_story_check", "get_story"}
             => \A t \in Threads : inside[t] # "popped"]_vars

====
